---- MODULE Spec2Model ----
(***************************************************************************)
(* Model of stock_seasonality_analysis.py: the seasonality computation     *)
(* (analyze_all_months_performance) and the GUI handler that drives it     *)
(* (run_analysis).                                                         *)
(*                                                                         *)
(* Strings are sequences of one-character strings, so that split, strip,   *)
(* upper and the lexicographic order of sort_index are computed.  Prices   *)
(* are integers and every float the code derives from them (returns,       *)
(* means, hit rates) is an exact rational <<n, d>> in lowest terms with    *)
(* d > 0; floating-point rounding error is not modelled.  Dates are        *)
(* <<year, month, day>> and the wall clock is <<year, month, day, hour>>.  *)
(***************************************************************************)
EXTENDS Integers, Sequences, FiniteSets

VARIABLES
  clock,            \* the wall clock pd.to_datetime("today") reads
  pc,               \* "idle", "loop", "returned", "raised" or "done"
  caller,           \* "none", "gui" (run_analysis) or "direct"
  tickers,          \* the tickers argument
  years,            \* the years argument
  start_date,
  end_date,
  idx,              \* tickers the for loop has gone through
  data,             \* the DataFrame of the last yf.download of the call
  monthly_returns,  \* monthly_returns of each month of its last instrument
  all_results,
  fetch_log,        \* the yf.download calls made, with how each ended
  raised,           \* the exception raised, or "none"
  status_label,
  dialog,           \* the messagebox shown, or "none"
  df,               \* the DataFrame of run_analysis
  saved             \* the Excel file was written

vars ==
  <<clock, pc, caller, tickers, years, start_date, end_date, idx,
    data, monthly_returns, all_results, fetch_log, raised, status_label,
    dialog, df, saved>>

\* ------------------------------------------------------------------ bounds
MaxInputLen == 3
MaxBucket == 6

\* ------------------------------------------------------------------ config
LOOKBACK_YEARS == 15

MONTH_NAMES ==
  <<"Jan", "Feb", "Mar", "Apr", "May", "Jun",
    "Jul", "Aug", "Sep", "Oct", "Nov", "Dec">>

\* len(month_data) < 5
MinBars == 5

AvgKind == "Avg. Rtn (%)"
HitKind == "Hit Rate (%)"

\* f"{month_name} Avg. Rtn (%)" and f"{month_name} Hit Rate (%)"
AvgCol(month_name) == <<month_name, AvgKind>>
HitCol(month_name) == <<month_name, HitKind>>

\* ----------------------------------------------------------------- strings
Chars == {"a", "Z", " ", ","}

\* Code point of a character: Python compares str by code point.
Ord(c) ==
  CASE c = " " -> 32
    [] c = "," -> 44
    [] c = "A" -> 65
    [] c = "Z" -> 90
    [] c = "a" -> 97

UpperChar(c) == IF c = "a" THEN "A" ELSE c

\* str.upper()
Upper(s) == [i \in 1..Len(s) |-> UpperChar(s[i])]

IsSpace(c) == c = " "

RECURSIVE LStrip(_)
LStrip(s) ==
  IF s # <<>> /\ IsSpace(Head(s)) THEN LStrip(Tail(s)) ELSE s

RECURSIVE RStrip(_)
RStrip(s) ==
  IF s # <<>> /\ IsSpace(s[Len(s)]) THEN RStrip(SubSeq(s, 1, Len(s) - 1)) ELSE s

\* str.strip()
Strip(s) == RStrip(LStrip(s))

\* str.split(","): always at least one field, empty fields kept
RECURSIVE Split(_)
Split(s) ==
  IF \E i \in 1..Len(s) : s[i] = ","
    THEN LET i == CHOOSE k \in 1..Len(s) :
                    s[k] = "," /\ \A j \in 1..(k - 1) : s[j] # ","
         IN <<SubSeq(s, 1, i - 1)>> \o Split(SubSeq(s, i + 1, Len(s)))
    ELSE <<s>>

\* t.strip().upper()
NormalizeTicker(t) == Upper(Strip(t))

\* if t.strip()
KeepToken(t) == Strip(t) # <<>>

RECURSIVE ParseFields(_)
ParseFields(fields) ==
  IF fields = <<>> THEN <<>>
  ELSE (IF KeepToken(Head(fields)) THEN <<NormalizeTicker(Head(fields))>> ELSE <<>>)
         \o ParseFields(Tail(fields))

\* [t.strip().upper() for t in raw_input.split(",") if t.strip()]
ParseTickers(raw) == ParseFields(Split(raw))

\* a < b for Python str
RECURSIVE StrLess(_, _)
StrLess(a, b) ==
  IF b = <<>> THEN FALSE
  ELSE IF a = <<>> THEN TRUE
  ELSE IF Ord(Head(a)) # Ord(Head(b)) THEN Ord(Head(a)) < Ord(Head(b))
  ELSE StrLess(Tail(a), Tail(b))

StrLeq(a, b) == a = b \/ StrLess(a, b)

\* What the user may have typed into stock_entry.
RawInputs == UNION {[1..n -> Chars] : n \in 0..MaxInputLen}

\* --------------------------------------------------------------- rationals
RECURSIVE Gcd(_, _)
Gcd(a, b) == IF b = 0 THEN a ELSE Gcd(b, a % b)

Abs(x) == IF x < 0 THEN -x ELSE x

\* n/d in lowest terms with a positive denominator (d # 0)
Rat(n, d) ==
  LET g == Gcd(Abs(n), Abs(d))
      s == IF d < 0 THEN -1 ELSE 1
  IN <<(s * n) \div g, (s * d) \div g>>

Zero == <<0, 1>>

RatAdd(p, q) == Rat(p[1] * q[2] + q[1] * p[2], p[2] * q[2])
RatScale(p, k) == Rat(p[1] * k, p[2])
RatDivInt(p, k) == Rat(p[1], p[2] * k)
RatPositive(p) == p[1] > 0

RECURSIVE RatSum(_)
RatSum(s) == IF s = <<>> THEN Zero ELSE RatAdd(Head(s), RatSum(Tail(s)))

\* round(x, 2): to the nearest hundredth, ties to even
Round2(p) ==
  LET n == 100 * p[1]
      f == n \div p[2]
      r == n % p[2]
      k == IF 2 * r < p[2] THEN f
           ELSE IF 2 * r > p[2] THEN f + 1
           ELSE IF f % 2 = 0 THEN f ELSE f + 1
  IN Rat(k, 100)

\* ------------------------------------------------------------------- dates
DateLess(a, b) ==
  \/ a[1] < b[1]
  \/ a[1] = b[1] /\ a[2] < b[2]
  \/ a[1] = b[1] /\ a[2] = b[2] /\ a[3] < b[3]

IsLeap(y) == (y % 4 = 0 /\ y % 100 # 0) \/ y % 400 = 0

\* pd.to_datetime("today").normalize(): the time of day is dropped
Normalize(clk) == <<clk[1], clk[2], clk[3]>>

\* end_date - pd.DateOffset(years=years): same month and day, Feb 29 clamped
MinusYears(date, n) ==
  LET y == date[1] - n
  IN IF date[2] = 2 /\ date[3] = 29 /\ ~IsLeap(y)
       THEN <<y, 2, 28>>
       ELSE <<y, date[2], date[3]>>

\* The wall clock when the model starts, and the last instant it models.
Clock0 == <<2026, 6, 15, 12>>
ClockEnd == <<2026, 6, 16, 0>>

\* The next instant of the modelled clock (half-day steps inside one month).
NextClock(clk) ==
  IF clk[4] = 0 THEN <<clk[1], clk[2], clk[3], 12>>
  ELSE <<clk[1], clk[2], clk[3] + 1, 0>>

\* ---------------------------------------------------------------- provider
\* One daily bar of the DataFrame yf.download returns.
Bar(y, m, d, o, c) == [date |-> <<y, m, d>>, Open |-> o, Close |-> c]

\* n bars of month (y, m) on days 1..n: every price is 2, except the close of
\* the last bar (last_close) and both prices of bar bad_pos (bad_val);
\* bad_pos = 0 leaves every bar alone.
Bucket(y, m, n, last_close, bad_pos, bad_val) ==
  [k \in 1..n |->
     Bar(y, m, k,
         IF k = bad_pos THEN bad_val ELSE 2,
         IF k = bad_pos THEN bad_val ELSE IF k = n THEN last_close ELSE 2)]

BucketLens == {0} \cup ((MinBars - 1)..MaxBucket)

\* Buckets of positive prices whose return is negative, zero or positive.
GoodBuckets(y, m) ==
  {Bucket(y, m, n, c, 0, 0) : n \in BucketLens, c \in {1, 2, 3}}

\* Buckets with one bar whose prices are zero or negative: the first bar, a
\* bar in the middle or the last bar.
BadBuckets(y, m) ==
  {Bucket(y, m, t[1], 3, t[2], t[3]) :
     t \in {u \in (BucketLens \ {0}) \X (1..MaxBucket) \X {0, -1} :
              u[2] \in {1, 2, u[1]}}}

\* The histories the provider may hold for a symbol, in date order: January
\* of 2025 and of 2026.
ProviderSeries ==
  {b1 \o b2 : b1 \in {<<>>, Bucket(2025, 1, MinBars, 3, 0, 0)},
              b2 \in GoodBuckets(2026, 1)}
    \cup BadBuckets(2026, 1)

\* yf.download(ticker, start=start_date, end=end_date): the bars of the
\* history dated in [start, end)
Download(series, start, end) ==
  LET InWindow(b) == ~DateLess(b.date, start) /\ DateLess(b.date, end)
  IN SelectSeq(series, InWindow)

\* The arguments of one yf.download call.
DownloadArgsRecomputed(ticker, start, end) ==
  [ticker |-> ticker,
   start |-> MinusYears(Normalize(clock), years),
   end |-> Normalize(clock)]

DownloadArgs(ticker, start, end) ==
  [ticker |-> ticker, start |-> start, end |-> end]

\* ---------------------------------------------------------------- analysis
\* The rows of d that data.index.month == month_num selects.
MonthRows(d, month_num) ==
  LET InMonth(b) == b.date[2] = month_num
  IN SelectSeq(d, InMonth)

\* data[(data.index.month == month_num) & (data.index.year == year)], given
\* the rows the first mask selects
MonthData(month_rows, year) ==
  LET InYear(b) == b.date[1] = year
  IN SelectSeq(month_rows, InYear)

\* if month_data.empty or len(month_data) < 5: continue
SkipBucketBelowFour(month_data) ==
  month_data = <<>> \/ Len(month_data) < MinBars - 1

SkipBucket(month_data) ==
  month_data = <<>> \/ Len(month_data) < MinBars

\* What stands for the float line 55 never yields: the division raised.
ZeroDivisionError == <<0, 0>>

\* (end_price - start_price) / start_price: Python floats, so a start_price
\* of 0.0 raises ZeroDivisionError
MonthlyReturn(month_data) ==
  LET start_price == month_data[1].Open
      end_price == month_data[Len(month_data)].Close
  IN IF start_price = 0
       THEN ZeroDivisionError
       ELSE Rat(end_price - start_price, start_price)

\* for year in range(first, last + 1): the returns of the buckets kept
RECURSIVE MonthlyReturns(_, _, _)
MonthlyReturns(month_rows, first, last) ==
  IF first > last THEN <<>>
  ELSE LET month_data == MonthData(month_rows, first)
       IN (IF SkipBucket(month_data) THEN <<>> ELSE <<MonthlyReturn(month_data)>>)
            \o MonthlyReturns(month_rows, first + 1, last)

\* float(series.mean()) * 100, or 0.0
AvgReturn(returns) ==
  IF returns # <<>>
    THEN RatScale(RatDivInt(RatSum(returns), Len(returns)), 100)
    ELSE Zero

\* (series.gt(0).sum() / len(series)) * 100, or 0.0
HitRateNonNegative(returns) ==
  IF returns # <<>>
    THEN Rat(100 * Cardinality({i \in 1..Len(returns) : returns[i][1] >= 0}),
             Len(returns))
    ELSE Zero

HitRate(returns) ==
  IF returns # <<>>
    THEN Rat(100 * Cardinality({i \in 1..Len(returns) : RatPositive(returns[i])}),
             Len(returns))
    ELSE Zero

ColumnKeys == {<<MONTH_NAMES[i], k>> : i \in 1..12, k \in {AvgKind, HitKind}}

MonthNum(month_name) == CHOOSE i \in 1..12 : MONTH_NAMES[i] = month_name

\* monthly_returns of every month of one instrument
AllMonthlyReturns(d, start, end) ==
  [month_num \in 1..12 |->
     MonthlyReturns(MonthRows(d, month_num), start[1], end[1])]

\* The division of line 55 raised in some bucket: the loops stop there.
DivisionByZero(returns) ==
  \E month_num \in 1..12 : \E i \in 1..Len(returns[month_num]) :
    returns[month_num][i] = ZeroDivisionError

\* ticker_results: the dict of one instrument
TickerResults(ticker, returns) ==
  [Ticker |-> ticker,
   vals |-> [col \in ColumnKeys |->
               IF col[2] = AvgKind
                 THEN AvgReturn(returns[MonthNum(col[1])])
                 ELSE HitRate(returns[MonthNum(col[1])])]]

\* if data.empty: continue
SkipInstrumentNever(d) == FALSE

SkipInstrument(d) == d = <<>>

\* The keys of ticker_results after "Ticker", in insertion order.
RECURSIVE InsertionColumns(_)
InsertionColumns(i) ==
  IF i > 12 THEN <<>>
  ELSE <<AvgCol(MONTH_NAMES[i]), HitCol(MONTH_NAMES[i])>> \o InsertionColumns(i + 1)

\* pd.DataFrame(all_results)
DataFrame(results) ==
  [columns |-> IF results = <<>> THEN <<>> ELSE InsertionColumns(1),
   rows |-> results]

\* ------------------------------------------------------------ finalization
\* df.empty
DfEmptyNever(frame) == FALSE

DfEmpty(frame) == frame.rows = <<>>

\* df.round(2)
RoundFrame(frame) ==
  [frame EXCEPT !.rows =
     [i \in 1..Len(frame.rows) |->
        [frame.rows[i] EXCEPT !.vals =
           [col \in ColumnKeys |-> Round2(frame.rows[i].vals[col])]]]]

RowOrders(n) ==
  {p \in [1..n -> 1..n] : \A i, j \in 1..n : i # j => p[i] # p[j]}

\* df.sort_index(): the orders the rows may end in (rows with equal index
\* values in either order)
SortIndexKeepOrder(rows) == {rows}

SortIndex(rows) ==
  {[i \in 1..Len(rows) |-> rows[p[i]]] : p \in
     {q \in RowOrders(Len(rows)) :
        \A i \in 1..(Len(rows) - 1) : StrLeq(rows[q[i]].Ticker, rows[q[i + 1]].Ticker)}}

\* ordered_columns
RECURSIVE OrderedColumns(_)
OrderedColumns(i) ==
  IF i > 12 THEN <<>>
  ELSE <<AvgCol(MONTH_NAMES[i]), HitCol(MONTH_NAMES[i])>> \o OrderedColumns(i + 1)

\* ------------------------------------------------------------------- state
NoDate == <<0, 0, 0>>
NoReturns == [month_num \in 1..12 |-> <<>>]

Init ==
  /\ clock = Clock0
  /\ pc = "idle"
  /\ caller = "none"
  /\ tickers = <<>>
  /\ years = 0
  /\ start_date = NoDate
  /\ end_date = NoDate
  /\ idx = 0
  /\ data = <<>>
  /\ monthly_returns = NoReturns
  /\ all_results = <<>>
  /\ fetch_log = <<>>
  /\ raised = "none"
  /\ status_label = "Ready"
  /\ dialog = "none"
  /\ df = DataFrame(<<>>)
  /\ saved = FALSE

\* Arguments of a call of analyze_all_months_performance made by other code
\* than run_analysis.
DirectTickers == {<<<<"A">>>>, <<<<"Z">>, <<"A">>>>}
DirectYears == {-1, 0, 1}

\* analyze_all_months_performance, lines 27-30: the window is computed and the
\* loop entered.
EnterAnalyze(tk, y) ==
  /\ tickers' = tk
  /\ years' = y
  /\ end_date' = Normalize(clock)
  /\ start_date' = MinusYears(Normalize(clock), y)
  /\ all_results' = <<>>
  /\ idx' = 0
  /\ pc' = "loop"

\* An exception leaves analyze_all_months_performance: run_analysis catches it
\* (lines 128-131), any other caller gets it.
Propagate(exc) ==
  /\ raised' = exc
  /\ IF caller = "gui"
       THEN /\ dialog' = "Error"
            /\ status_label' = "Ready"
            /\ pc' = "done"
       ELSE /\ pc' = "raised"
            /\ UNCHANGED <<dialog, status_label>>

\* run_analysis up to the first yf.download.
RunAnalysis ==
  /\ pc = "idle"
  /\ \E raw \in RawInputs :
       /\ caller' = "gui"
       /\ IF Strip(raw) = <<>>
            THEN /\ dialog' = "Input Error"
                 /\ pc' = "done"
                 /\ UNCHANGED <<tickers, years, start_date, end_date, idx,
                                all_results, status_label>>
            ELSE /\ status_label' = "Running"
                 /\ EnterAnalyze(ParseTickers(raw), LOOKBACK_YEARS)
                 /\ UNCHANGED dialog
  /\ UNCHANGED <<clock, data, monthly_returns, fetch_log, raised, df, saved>>

\* analyze_all_months_performance called with arguments of the caller's choice.
CallAnalyze ==
  /\ pc = "idle"
  /\ \E tk \in DirectTickers, y \in DirectYears :
       /\ caller' = "direct"
       /\ EnterAnalyze(tk, y)
  /\ UNCHANGED <<clock, data, monthly_returns, fetch_log, raised,
                 status_label, dialog, df, saved>>

\* One iteration of the for loop in which yf.download raises.
FetchRaises ==
  /\ pc = "loop"
  /\ idx < Len(tickers)
  /\ fetch_log' = Append(fetch_log,
       [call |-> DownloadArgs(tickers[idx + 1], start_date, end_date),
        result |-> "raise", valid |-> TRUE])
  /\ Propagate("FetchError")
  /\ UNCHANGED <<clock, caller, tickers, years, start_date, end_date,
                 idx, data, monthly_returns, all_results, df, saved>>

\* Every bar has a positive open and a positive close.
ValidBars(d) == \A i \in 1..Len(d) : d[i].Open > 0 /\ d[i].Close > 0

\* One iteration of the for loop in which yf.download returns.
Iteration ==
  /\ pc = "loop"
  /\ idx < Len(tickers)
  /\ \E series \in ProviderSeries :
       LET ticker == tickers[idx + 1]
           call == DownloadArgs(ticker, start_date, end_date)
       IN /\ data' = Download(series, call.start, call.end)
          /\ fetch_log' = Append(fetch_log,
               [call |-> call,
                result |-> IF data' = <<>> THEN "empty" ELSE "data",
                valid |-> ValidBars(data')])
          /\ IF SkipInstrument(data')
               THEN /\ idx' = idx + 1
                    /\ UNCHANGED <<pc, monthly_returns, all_results, raised,
                                   status_label, dialog>>
               ELSE \E returns \in {AllMonthlyReturns(data', start_date, end_date)} :
                 IF DivisionByZero(returns)
                   THEN /\ Propagate("ZeroDivisionError")
                        /\ UNCHANGED <<idx, monthly_returns, all_results>>
                   ELSE /\ monthly_returns' = returns
                        /\ all_results' =
                             Append(all_results, TickerResults(ticker, returns))
                        /\ idx' = idx + 1
                        /\ UNCHANGED <<pc, raised, status_label, dialog>>
  /\ UNCHANGED <<clock, caller, tickers, years, start_date, end_date,
                 df, saved>>

\* return pd.DataFrame(all_results): the locals of the loop go out of scope
AnalyzeReturn ==
  /\ pc = "loop"
  /\ idx = Len(tickers)
  /\ df' = DataFrame(all_results)
  /\ data' = <<>>
  /\ monthly_returns' = NoReturns
  /\ pc' = "returned"
  /\ UNCHANGED <<clock, caller, tickers, years, start_date, end_date,
                 idx, all_results, fetch_log, raised, status_label, dialog, saved>>

\* How the export of lines 106-121 may end: both steps succeed, pd.ExcelWriter
\* raises, or the file is written and os.startfile raises.
ExportOutcomes == {"ok", "write_fails", "open_fails"}

\* run_analysis from line 88 on.
Finalize ==
  /\ pc = "returned"
  /\ caller = "gui"
  /\ IF DfEmpty(df)
       THEN /\ dialog' = "No Data"
            /\ UNCHANGED <<df, saved, raised>>
       ELSE \E rows \in SortIndex(RoundFrame(df).rows), export \in ExportOutcomes :
              /\ df' = [columns |-> OrderedColumns(1), rows |-> rows]
              /\ saved' = (export # "write_fails")
              /\ raised' = IF export = "ok" THEN raised ELSE "ExportError"
              /\ dialog' = IF export = "ok" THEN "Completed" ELSE "Error"
  /\ status_label' = "Ready"
  /\ pc' = "done"
  /\ UNCHANGED <<clock, caller, tickers, years, start_date, end_date,
                 idx, data, monthly_returns, all_results, fetch_log>>

\* Time passes while the loop runs.
Tick ==
  /\ pc = "loop"
  /\ clock # ClockEnd
  /\ clock' = NextClock(clock)
  /\ UNCHANGED <<pc, caller, tickers, years, start_date, end_date,
                 idx, data, monthly_returns, all_results, fetch_log, raised,
                 status_label, dialog, df, saved>>

Next ==
  \/ RunAnalysis
  \/ CallAnalyze
  \/ FetchRaises
  \/ Iteration
  \/ AnalyzeReturn
  \/ Finalize
  \/ Tick

Spec == Init /\ [][Next]_vars

\* ================================================================== claims
LastFetch == fetch_log[Len(fetch_log)]

ResultTickers == [k \in 1..Len(all_results) |-> all_results[k].Ticker]

\* The tickers of the downloads that returned at least one bar, in order.
DataTickers ==
  LET Returned(e) == e.result = "data"
      kept == SelectSeq(fetch_log, Returned)
  IN [k \in 1..Len(kept) |-> kept[k].call.ticker]

\* The loop has just aggregated `data` into monthly_returns and a record.
Aggregated ==
  /\ pc = "loop"
  /\ fetch_log # <<>>
  /\ LastFetch.result = "data"

\* analyze_all_months_performance was entered.
Entered == end_date # NoDate

\* The bars of d dated in month month_num of year y.
BarsIn(d, y, month_num) ==
  {i \in 1..Len(d) : d[i].date[1] = y /\ d[i].date[2] = month_num}

WindowYears == start_date[1]..end_date[1]

\* d without its i-th bar
RemoveBar(d, i) == SubSeq(d, 1, i - 1) \o SubSeq(d, i + 1, Len(d))

\* ---- C1
\* C1: a yf.download that raises for one instrument does not end the loop:
\* once the call is over, every requested ticker has been fetched.
C1_FetchFailureDoesNotAbort ==
  (\E k \in 1..Len(fetch_log) : fetch_log[k].result = "raise")
    => (pc \in {"done", "raised", "returned"} => Len(fetch_log) = Len(tickers))

\* ---- C2
\* C2: whenever an instrument has been aggregated, each month's return
\* sequence holds exactly one return per (year, month) bucket of the window
\* with 5 or more bars and none for a bucket with 0 to 4 bars; and taking any
\* bar out of a bucket of exactly 5 bars takes that bucket's return out of
\* the month's sequence and leaves the other months alone.
C2_BucketThreshold ==
  Aggregated =>
    /\ \A month_num \in 1..12 :
         Len(monthly_returns[month_num]) =
           Cardinality({y \in WindowYears :
                          Cardinality(BarsIn(data, y, month_num)) >= 5})
    /\ \A i \in 1..Len(data) :
         Cardinality(BarsIn(data, data[i].date[1], data[i].date[2])) = 5 =>
           \A month_num \in 1..12 :
             Len(MonthlyReturns(MonthRows(RemoveBar(data, i), month_num),
                                start_date[1], end_date[1]))
               = IF month_num = data[i].date[2]
                   THEN Len(monthly_returns[month_num]) - 1
                   ELSE Len(monthly_returns[month_num])

\* A history with a 5-bar January 2025 and a 4-bar January 2026 was
\* aggregated: one return for January.
C2_Witness ==
  /\ Aggregated
  /\ Cardinality(BarsIn(data, 2025, 1)) = 5
  /\ Cardinality(BarsIn(data, 2026, 1)) = 4
  /\ Len(monthly_returns[1]) = 1

\* ---- C3
\* C3: a bar with a non-positive open or close is treated as absent: a
\* download that returned bars never ends in ZeroDivisionError, and the
\* returns aggregated are those of the history without its invalid bars.
C3_InvalidBarsIgnored ==
  (fetch_log # <<>> /\ LastFetch.result = "data") =>
    /\ raised # "ZeroDivisionError"
    /\ pc = "loop" =>
         LET Valid(b) == b.Open > 0 /\ b.Close > 0
         IN monthly_returns =
              AllMonthlyReturns(SelectSeq(data, Valid), start_date, end_date)

\* ---- C4
\* C4: a call with years <= 0 is rejected before any fetch: it makes no
\* yf.download call and returns no table.
C4_NonPositiveYearsRejected ==
  (caller = "direct" /\ years <= 0) =>
    /\ fetch_log = <<>>
    /\ pc # "returned"

\* ---- C5
\* C5: the records of all_results are, in order, those of the downloads that
\* returned at least one bar (an empty download leaves no record), each with
\* all twelve months; the one download with bars and no record is a last one
\* that held a non-positive price and ended the call in ZeroDivisionError;
\* the table run_analysis goes on with has the rows of these records.
C5_EmptySeriesAbsent ==
  /\ \A k \in 1..Len(all_results) : DOMAIN all_results[k].vals = ColumnKeys
  /\ Cardinality(ColumnKeys) = 24
  /\ raised # "ZeroDivisionError" => ResultTickers = DataTickers
  /\ raised = "ZeroDivisionError" =>
       /\ ~LastFetch.valid
       /\ ResultTickers = SubSeq(DataTickers, 1, Len(DataTickers) - 1)
  /\ (pc \in {"returned", "done"} /\ raised \notin {"FetchError", "ZeroDivisionError"})
       => [k \in 1..Len(df.rows) |-> df.rows[k].Ticker] \in
            {[k \in 1..Len(ResultTickers) |-> ResultTickers[p[k]]] :
               p \in RowOrders(Len(ResultTickers))}

\* After an empty download, a history whose only bucket has 4 bars got its
\* record, all zeros.
C5_Witness ==
  /\ Aggregated
  /\ Len(fetch_log) = 2
  /\ fetch_log[1].result = "empty"
  /\ Len(data) = 4
  /\ Len(all_results) = 1
  /\ \A col \in ColumnKeys : all_results[1].vals[col] = Zero

\* ---- C6
\* C6: for the instrument just aggregated and every month, hitRatePct is 100
\* times the number of strictly positive returns over the number of returns,
\* lies in [0, 100], is 0 only with no strictly positive return and 100 only
\* with every return strictly positive, and a month with no return has
\* average 0 and hit rate 0; every record's hit rates lie in [0, 100].
C6_HitRate ==
  /\ \A k \in 1..Len(all_results) : \A month_num \in 1..12 :
       LET hit == all_results[k].vals[HitCol(MONTH_NAMES[month_num])]
       IN hit[2] > 0 /\ 0 <= hit[1] /\ hit[1] <= 100 * hit[2]
  /\ Aggregated =>
       \A month_num \in 1..12 :
         LET rets == monthly_returns[month_num]
             n == Len(rets)
             pos == Cardinality({i \in 1..n : rets[i][1] > 0 /\ rets[i][2] > 0})
             rec == all_results[Len(all_results)]
             hit == rec.vals[HitCol(MONTH_NAMES[month_num])]
             avg == rec.vals[AvgCol(MONTH_NAMES[month_num])]
         IN /\ hit[1] * n = 100 * pos * hit[2]
            /\ hit = Zero => pos = 0
            /\ hit = <<100, 1>> => (n > 0 /\ pos = n)
            /\ n = 0 => (avg = Zero /\ hit = Zero)

\* January returned +50% in 2025 and exactly 0 in 2026: hit rate 50.
C6_Witness ==
  /\ Aggregated
  /\ monthly_returns[1] = <<<<1, 2>>, Zero>>
  /\ all_results[Len(all_results)].vals[HitCol("Jan")] = <<50, 1>>

\* ---- C7
\* C7: the table run_analysis exports has its rows in ascending order of
\* symbol, whatever the order of the input, and its columns in the order
\* Jan Avg, Jan Hit, Feb Avg, Feb Hit, ..., Dec Avg, Dec Hit.
C7_SortedRowsFixedColumns ==
  (pc = "done" /\ df.rows # <<>>) =>
    /\ \A i \in 1..(Len(df.rows) - 1) :
         StrLeq(df.rows[i].Ticker, df.rows[i + 1].Ticker)
    /\ \E p \in RowOrders(Len(df.rows)) :
         \A i \in 1..Len(df.rows) : df.rows[i].Ticker = all_results[p[i]].Ticker
    /\ df.columns =
         << <<"Jan", "Avg. Rtn (%)">>, <<"Jan", "Hit Rate (%)">>,
            <<"Feb", "Avg. Rtn (%)">>, <<"Feb", "Hit Rate (%)">>,
            <<"Mar", "Avg. Rtn (%)">>, <<"Mar", "Hit Rate (%)">>,
            <<"Apr", "Avg. Rtn (%)">>, <<"Apr", "Hit Rate (%)">>,
            <<"May", "Avg. Rtn (%)">>, <<"May", "Hit Rate (%)">>,
            <<"Jun", "Avg. Rtn (%)">>, <<"Jun", "Hit Rate (%)">>,
            <<"Jul", "Avg. Rtn (%)">>, <<"Jul", "Hit Rate (%)">>,
            <<"Aug", "Avg. Rtn (%)">>, <<"Aug", "Hit Rate (%)">>,
            <<"Sep", "Avg. Rtn (%)">>, <<"Sep", "Hit Rate (%)">>,
            <<"Oct", "Avg. Rtn (%)">>, <<"Oct", "Hit Rate (%)">>,
            <<"Nov", "Avg. Rtn (%)">>, <<"Nov", "Hit Rate (%)">>,
            <<"Dec", "Avg. Rtn (%)">>, <<"Dec", "Hit Rate (%)">> >>

\* The input named Z before A and the exported table lists A before Z.
C7_Witness ==
  /\ pc = "done"
  /\ dialog = "Completed"
  /\ tickers = << <<"Z">>, <<"A">> >>
  /\ Len(df.rows) = 2
  /\ df.rows[1].Ticker = <<"A">>
  /\ df.rows[2].Ticker = <<"Z">>

\* ---- C8
\* C8: no two rows of the table run_analysis finalizes have the same symbol.
C8_UniqueSymbols ==
  pc = "done" =>
    \A i, j \in 1..Len(df.rows) :
      i # j => df.rows[i].Ticker # df.rows[j].Ticker

\* ---- C9
\* C9: when every download of a run_analysis call returned an empty series,
\* nothing is finalized or exported and no completion is reported, and the
\* handler ends with the "No Data" warning and the status back at Ready.
C9_NoUsableResults ==
  (/\ caller = "gui"
   /\ Entered
   /\ Len(fetch_log) = Len(tickers)
   /\ \A k \in 1..Len(fetch_log) : fetch_log[k].result = "empty") =>
    /\ ~saved
    /\ df = DataFrame(<<>>)
    /\ dialog \in {"none", "No Data"}
    /\ pc = "done" => (dialog = "No Data" /\ status_label = "Ready")
    /\ pc # "done" => (dialog = "none" /\ status_label = "Running")

\* Two tickers were requested, both downloads came back empty, and the
\* handler has ended.
C9_Witness ==
  /\ caller = "gui"
  /\ pc = "done"
  /\ Len(tickers) = 2
  /\ Len(fetch_log) = 2
  /\ \A k \in 1..2 : fetch_log[k].result = "empty"
  /\ dialog = "No Data"

\* ---- C10
\* C10: the k-th yf.download of a call is for the k-th requested ticker, so
\* no ticker is fetched twice or out of order; every download uses the window
\* computed at entry, whatever the clock says by then; and a call that
\* returns has fetched every ticker.
C10_OneFetchPerTickerSameWindow ==
  /\ Len(fetch_log) <= Len(tickers)
  /\ pc = "loop" => Len(fetch_log) = idx
  /\ \A k \in 1..Len(fetch_log) :
       /\ fetch_log[k].call.ticker = tickers[k]
       /\ fetch_log[k].call.start = fetch_log[1].call.start
       /\ fetch_log[k].call.end = fetch_log[1].call.end
       /\ fetch_log[k].call.start = start_date
       /\ fetch_log[k].call.end = end_date
       /\ fetch_log[k].call.start = MinusYears(fetch_log[k].call.end, years)
  /\ (Entered /\ raised \notin {"FetchError", "ZeroDivisionError"}
        /\ pc \in {"returned", "done"}) =>
       Len(fetch_log) = Len(tickers)

\* Two downloads were made and the date has changed since the window was
\* computed.
C10_Witness ==
  /\ Len(fetch_log) = 2
  /\ Normalize(clock) # end_date
  /\ fetch_log[2].call.end = Normalize(Clock0)

====
